---- MODULE Spec2Model ----
(***************************************************************************)
(* A model of sec_edgar_downloader: Downloader.get and the helpers of      *)
(* _utils.py it runs (identifier resolution, validation, index fetch,      *)
(* filter, URL derivation, fetch-and-persist).                             *)
(*                                                                         *)
(* Python strings that the code takes apart (identifiers, document names,  *)
(* descriptions, URLs, file names) are sequences of one-character strings. *)
(* Dates are day numbers: the code only parses YYYY-MM-DD strings and      *)
(* compares them, day 1 being DEFAULT_AFTER_DATE and day 0 the day before. *)
(***************************************************************************)
EXTENDS Integers, Sequences, FiniteSets, TLC

\* ------------------------------------------------------------------ bounds

\* Most filings the remote index holds for one company (all pages together).
MaxFilings == 2
\* Most supplementary pages the primary index response lists.
MaxExtraPages == 2
\* Largest caller-supplied amount.
MaxAmount == 1
\* Last day of the calendar (today, DEFAULT_BEFORE_DATE).
MaxDay == 2
\* Most entries of an index handed to filter_dataframe on its own.
MaxIndexLen == 2

\* ----------------------------------------------------------- str helpers

Lowers == <<"a", "b", "h", "l", "m", "p", "t", "x", "z">>
Uppers == <<"A", "B", "H", "L", "M", "P", "T", "X", "Z">>
Digits == {"0", "1", "2", "3", "4", "5", "6", "7", "8", "9"}
Space == " "

\* str.upper() on one character.
UpperChar(c) ==
    IF \E i \in 1..Len(Lowers) : Lowers[i] = c
    THEN Uppers[CHOOSE i \in 1..Len(Lowers) : Lowers[i] = c]
    ELSE c

\* str.upper()
upper(s) == [i \in 1..Len(s) |-> UpperChar(s[i])]

\* str.strip(): drops leading and trailing whitespace.
strip(s) ==
    LET keep == {i \in 1..Len(s) : s[i] # Space}
    IN  IF keep = {} THEN <<>>
        ELSE LET lo == CHOOSE i \in keep : \A j \in keep : i <= j
                 hi == CHOOSE i \in keep : \A j \in keep : j <= i
             IN  SubSeq(s, lo, hi)

\* n copies of the character c.
Repeat(c, n) == [i \in 1..n |-> c]

\* str.zfill(width): zeros go after a leading sign.
zfill(s, width) ==
    IF Len(s) >= width THEN s
    ELSE IF Len(s) > 0 /\ s[1] \in {"+", "-"}
         THEN <<s[1]>> \o Repeat("0", width - Len(s)) \o Tail(s)
         ELSE Repeat("0", width - Len(s)) \o s

\* str.endswith(suffix)
endswith(s, suffix) ==
    /\ Len(s) >= Len(suffix)
    /\ SubSeq(s, Len(s) - Len(suffix) + 1, Len(s)) = suffix

\* str.startswith(prefix)
startswith(s, prefix) ==
    /\ Len(s) >= Len(prefix)
    /\ SubSeq(s, 1, Len(prefix)) = prefix

\* str.replace(old, new): every non-overlapping occurrence, left to right.
RECURSIVE replace(_, _, _)
replace(s, old, new) ==
    IF s = <<>> THEN <<>>
    ELSE IF startswith(s, old)
         THEN new \o replace(SubSeq(s, Len(old) + 1, Len(s)), old, new)
         ELSE <<Head(s)>> \o replace(Tail(s), old, new)

\* str.replace(ch, "", count): removes the first count occurrences of ch.
RECURSIVE remove_first(_, _, _)
remove_first(s, ch, count) ==
    IF s = <<>> \/ count = 0 THEN s
    ELSE IF Head(s) = ch THEN remove_first(Tail(s), ch, count - 1)
         ELSE <<Head(s)>> \o remove_first(Tail(s), ch, count)

\* str.rstrip(ch)
RECURSIVE rstrip(_, _)
rstrip(s, ch) ==
    IF s # <<>> /\ s[Len(s)] = ch THEN rstrip(SubSeq(s, 1, Len(s) - 1), ch) ELSE s

\* s.rsplit(ch, 1).pop(): the part after the last ch (all of s without one).
last_segment(s, ch) ==
    LET at == {i \in 1..Len(s) : s[i] = ch}
    IN  IF at = {} THEN s
        ELSE SubSeq(s, (CHOOSE i \in at : \A j \in at : j <= i) + 1, Len(s))

\* pathlib: Path(p).name, the final component, trailing separators dropped.
path_name(p) == last_segment(rstrip(p, "/"), "/")

\* pathlib: Path(name).suffix, from the last dot, unless that dot leads or ends
\* the name.
path_suffix(p) ==
    LET name == path_name(p)
        at == {i \in 1..Len(name) : name[i] = "."}
    IN  IF at = {} THEN <<>>
        ELSE LET i == CHOOSE k \in at : \A j \in at : j <= k
             IN  IF 1 < i /\ i < Len(name) THEN SubSeq(name, i, Len(name)) ELSE <<>>

\* int(s) succeeds on a stripped string: an optional sign, then digits, with
\* single underscores allowed between digits.
int_parses(s) ==
    LET body == IF s # <<>> /\ s[1] \in {"+", "-"} THEN Tail(s) ELSE s
    IN  /\ body # <<>>
        /\ \A i \in 1..Len(body) : body[i] \in Digits \cup {"_"}
        /\ body[1] \in Digits
        /\ body[Len(body)] \in Digits
        /\ \A i \in 1..(Len(body) - 1) : ~(body[i] = "_" /\ body[i + 1] = "_")

is_cik(ticker_or_cik) == int_parses(ticker_or_cik)

\* A string of decimal digits only.
AllDigits(s) == \A i \in 1..Len(s) : s[i] \in Digits

\* ------------------------------------------------------------- constants

\* Downloader._validate_ticker_or_cik: a CIK has at most this many characters
\* and is padded to exactly this many.
CikLen == 10

\* DEFAULT_AFTER_DATE (1994-01-01) as a day number; day 0 is the day before.
DefaultAfterDay == 1
\* DEFAULT_BEFORE_DATE: today.
DefaultBeforeDay == MaxDay

\* SUPPORTED_FORMS
SUPPORTED_FORMS == {"8-K", "10-K"}

\* FILING_FULL_SUBMISSION_FILENAME and FILING_DETAILS_FILENAME_STEM
FILING_FULL_SUBMISSION_FILENAME == <<"f", ".", "t", "x", "t">>
FILING_DETAILS_FILENAME_STEM == <<"d">>

\* SEC_EDGAR_ARCHIVES_BASE_URL: scheme and host, then the path of the archive.
ArchivesSchemeHost == <<"h", ":", "/", "/", "s">>
SEC_EDGAR_ARCHIVES_BASE_URL == ArchivesSchemeHost \o <<"/", "d">>

\* urlparse(url).path for a URL of the archive host (no query, no fragment).
url_path(url) == SubSeq(url, Len(ArchivesSchemeHost) + 1, Len(url))

\* ------------------------------------------------------------ optionals

NoAmount == [kind |-> "none", n |-> 0]
SomeAmount(k) == [kind |-> "int", n |-> k]

NoDate == [kind |-> "none", day |-> 0]
MalformedDate == [kind |-> "malformed", day |-> 0]
DateStr(d) == [kind |-> "date", day |-> d]

Max(a, b) == IF a >= b THEN a ELSE b
Min(a, b) == IF a <= b THEN a ELSE b

\* ------------------------------------------------- identifier resolution

\* The ticker table StockMapper and MutualFundMapper supply: one known ticker.
KnownTicker == <<"A", "B">>
KnownTickerCik == zfill(<<"4", "2">>, CikLen)

\* self._ticker_to_cik_mapping.get(ticker): <<>> is None.
mapping_get(ticker) == IF ticker = KnownTicker THEN <<KnownTickerCik>> ELSE <<>>

\* _validate_ticker_or_cik up to the point where the ticker table is needed:
\* an error, a padded CIK, or the ticker to convert.
validate_ticker_or_cik(raw) ==
    LET s == upper(strip(raw))
    IN  IF s = <<>>
        THEN [kind |-> "error", exc |-> "BlankIdentifier", value |-> s]
        ELSE IF is_cik(s)
             THEN IF Len(s) > CikLen
                  THEN [kind |-> "error", exc |-> "CikTooLong", value |-> s]
                  ELSE [kind |-> "cik", exc |-> "none", value |-> zfill(s, CikLen)]
             ELSE [kind |-> "ticker", exc |-> "none", value |-> s]

\* _convert_ticker_to_cik once the table is there.
convert_ticker_to_cik(ticker) ==
    IF mapping_get(ticker) = <<>>
    THEN [kind |-> "error", exc |-> "UnknownTicker", value |-> ticker]
    ELSE [kind |-> "cik", exc |-> "none", value |-> mapping_get(ticker)[1]]

\* ------------------------------------------------------------ validation

\* A get that hands the amount on as the caller gave it.
normalize_amount_kept(amount) == amount

\* get: amount = max(int(amount), 1) when it is given.
normalize_amount(amount) ==
    IF amount.kind = "none" THEN amount ELSE SomeAmount(Max(amount.n, 1))

\* validate_dates: the error, or the two dates with the defaults filled in.
validate_dates(start_date, end_date) ==
    LET start == IF start_date.kind = "none" THEN DefaultAfterDay ELSE start_date.day
        end == IF end_date.kind = "none" THEN DefaultBeforeDay ELSE end_date.day
    IN  IF start_date.kind = "malformed"
        THEN [exc |-> "IncorrectDateFormat", start |-> 0, end |-> 0]
        ELSE IF start_date.kind = "date" /\ start < DefaultAfterDay
        THEN [exc |-> "DateBeforeMinimum", start |-> 0, end |-> 0]
        ELSE IF end_date.kind = "malformed"
        THEN [exc |-> "IncorrectDateFormat", start |-> 0, end |-> 0]
        ELSE IF start > end
        THEN [exc |-> "StartAfterEnd", start |-> 0, end |-> 0]
        ELSE [exc |-> "none", start |-> start, end |-> end]

\* A get that does not check the forms.
validate_forms_unchecked(forms) == "none"

\* validate_forms: set(forms) - SUPPORTED_FORMS must be empty.
validate_forms(forms) ==
    IF forms \ SUPPORTED_FORMS # {} THEN "UnsupportedForm" ELSE "none"

\* ---------------------------------------------------------------- filter

AmendMarker == <<"/", "A">>

\* A range that leaves its last day out.
date_range_open(start, end) == start..(end - 1)

\* pd.date_range(start, end, freq="D")
date_range(start, end) == start..end

\* The rows of s at the positions in S, in the order of s.
RECURSIVE PickPositions(_, _, _)
PickPositions(s, S, i) ==
    IF i > Len(s) THEN <<>>
    ELSE (IF i \in S THEN <<s[i]>> ELSE <<>>) \o PickPositions(s, S, i + 1)

\* One row of the submissions dataframe with its index label.
Row(e, label) ==
    [index |-> label,
     accessionNumber |-> e.accessionNumber,
     form |-> e.form,
     filingDate |-> e.filingDate,
     primaryDocument |-> e.primaryDocument,
     primaryDocDescription |-> e.primaryDocDescription]

\* The dataframe of a list of entries: labels 0, 1, 2, ...
DataFrame(entries) == [i \in 1..Len(entries) |-> Row(entries[i], i - 1)]

\* mask = form.isin(forms) & filingDate.isin(date_range), and without amends
\* & ~primaryDocDescription.str.endswith("/A")
filter_mask(row, forms, start_date, end_date, include_amends) ==
    /\ row.form \in forms
    /\ row.filingDate \in date_range(start_date, end_date)
    /\ (include_amends \/ ~endswith(row.primaryDocDescription, AmendMarker))

\* df.head(n): a cap on the whole selection, not one per form.
frame_head(df, n) == SubSeq(df, 1, Min(n, Len(df)))

\* df.groupby("form").head(n) for n >= 0: the rows with fewer than n earlier
\* rows of their form, in the order of df.
groupby_form_head(df, n) ==
    PickPositions(df,
        {p \in 1..Len(df) :
            Cardinality({q \in 1..(p - 1) : df[q].form = df[p].form}) < n}, 1)

\* filter_dataframe; reset_index() keeps the old labels in the column "index".
filter_dataframe(submissions, forms, amount, start_date, end_date, include_amends) ==
    LET df == DataFrame(submissions)
        masked == PickPositions(df,
            {p \in 1..Len(df) :
                filter_mask(df[p], forms, start_date, end_date, include_amends)}, 1)
    IN  IF amount.kind = "none" THEN masked
        ELSE groupby_form_head(masked, amount.n)

\* ------------------------------------------------------- URL derivation

Slash == <<"/">>

\* get_download_urls: one row per filing.
download_url_row(cik, filing) ==
    LET accession_number_no_dashes == remove_first(filing.accessionNumber, "-", 2)
        submission_base_url ==
            SEC_EDGAR_ARCHIVES_BASE_URL \o Slash \o cik \o Slash
                \o accession_number_no_dashes
    IN  [accessionNumber |-> filing.accessionNumber,
         form |-> filing.form,
         filingDate |-> filing.filingDate,
         fullSubmissionUrl |->
            submission_base_url \o Slash \o filing.accessionNumber
                \o <<".", "t", "x", "t">>,
         filingDetailsUrl |->
            IF filing.primaryDocument # <<>>
            THEN submission_base_url \o Slash \o path_name(filing.primaryDocument)
            ELSE <<>>]

get_download_urls(cik, filings_to_download) ==
    [i \in 1..Len(filings_to_download) |->
        download_url_row(cik, filings_to_download[i])]

\* download_filings: the extension of the details file,
\* Path(sec_filename).suffix.replace("htm", "html")
details_extension(filingDetailsUrl) ==
    LET sec_filename == last_segment(rstrip(url_path(filingDetailsUrl), "/"), "/")
    IN  replace(path_suffix(sec_filename), <<"h", "t", "m">>, <<"h", "t", "m", "l">>)

\* download_filings: save_filename of the details document.
details_save_filename(filingDetailsUrl) ==
    FILING_DETAILS_FILENAME_STEM \o details_extension(filingDetailsUrl)

\* download_and_save_filing: links are rewritten in HTML files only.
resolves_urls(resolve_urls, save_filename) ==
    resolve_urls /\ path_suffix(save_filename) = <<".", "h", "t", "m", "l">>

\* ----------------------------------------------------------------- state

VARIABLES
    pc,           \* where get is: idle, load_mapping, validate, fetch_index,
                  \* fetch_extra, filter, full, details, done, error
    err,          \* the exception get raised, and the phase that raised it
    mapping,      \* self._ticker_to_cik_mapping: "None" or "loaded"
    ident,        \* what _validate_ticker_or_cik made of this call's identifier
    lookups,      \* ticker-table lookups of this call
    cik,          \* get's cik
    args,         \* get's forms, amount, start_date, end_date once validated
    submissions,  \* get_submissions_for_cik: the pages fetched so far
    extraFiles,   \* get_submissions_for_cik: the supplementary pages still to fetch
    targets,      \* download_urls_df
    downloadDetails, \* download_filings: include_filing_details
    row,          \* download_filings: the row of download_urls_df being processed
    net,          \* the network accesses of this call, in order
    written,      \* the files this call wrote
    sessions,     \* the requests.Session objects that are open
    ret,          \* what get returned
    call,         \* a helper called on its own: its arguments
    result        \* a helper called on its own: its result

vars == <<pc, err, mapping, ident, lookups, cik, args, submissions, extraFiles,
          targets, downloadDetails, row, net, written, sessions, ret, call, result>>

getVars == <<pc, err, mapping, ident, lookups, cik, args, submissions, extraFiles,
             targets, downloadDetails, row, net, written, sessions, ret>>

NoError == [phase |-> "none", exc |-> "none"]
NoIdent == [kind |-> "none", exc |-> "none", value |-> <<>>]
NoArgs == [forms |-> {}, amount |-> NoAmount, start_date |-> 0, end_date |-> 0]
NoReturn == [type |-> "none", rows |-> <<>>]
NoCall ==
    [fn |-> "none", submissions |-> <<>>, forms |-> {}, amount |-> NoAmount,
     start_date |-> 0, end_date |-> 0, include_amends |-> FALSE,
     primaryDocument |-> <<>>]
NoResult ==
    [fn |-> "none", rows |-> <<>>, filingDetailsUrl |-> <<>>, save_filename |-> <<>>,
     resolved |-> FALSE]

\* What rate_limited_get_request can end with: the response, HTTPError from
\* raise_for_status, or an exception of client.get (the connection failed, or
\* the Retry policy ran out of attempts on a status of its status_forcelist).
Outcomes == {"ok", "HTTPError", "ConnectionError", "RetryError"}

\* download_and_save_filing can also fail after the fetch, writing the file.
SaveOutcomes == Outcomes \cup {"OSError"}

Request(kind, key, outcome) == [kind |-> kind, key |-> key, outcome |-> outcome]

\* ---------------------------------------------------------------- inputs

\* Identifiers a caller passes: blank, numeric (padded, signed, too long),
\* a known and an unknown ticker.
Identifiers ==
    { <<" ">>,
      <<" ", "7">>,
      <<"-", "7">>,
      Repeat("1", CikLen + 1),
      <<"a", "b">>,
      <<"z", "z">> }

FormInputs == { {"8-K"}, {"8-K", "10-K"}, {"BAD"}, {"8-K", "BAD"} }

AmountInputs == {NoAmount} \cup {SomeAmount(k) : k \in (0 - 1)..MaxAmount}

\* Dates a caller passes: none, malformed, the day before the earliest
\* supported one, that day, and today.
DateInputs ==
    {NoDate, MalformedDate} \cup
    {DateStr(d) : d \in {DefaultAfterDay - 1, DefaultAfterDay, MaxDay}}

\* All sequences over S of length at most n.
SeqsUpTo(S, n) == UNION {[1..k -> S] : k \in 0..n}

PlainDescription == <<"K">>
AmendDescription == <<"K", "/", "A">>

\* What the remote index says of one filing, but for its accession number.
\* Here every filing is of the first day, the 10-K filings are amendments
\* with a primary document, and an 8-K filing has a primary document or none.
EntryBodies ==
    { [form |-> fd[1], filingDate |-> DefaultAfterDay,
       primaryDocument |-> fd[2],
       primaryDocDescription |->
           IF fd[1] = "10-K" THEN AmendDescription ELSE PlainDescription] :
        fd \in { <<"8-K", <<>>>>,
                 <<"8-K", <<"x", "/", "a", ".", "h", "t", "m">>>>,
                 <<"10-K", <<"x", "/", "a", ".", "h", "t", "m">>>> } }

DigitSeq == <<"1", "2", "3", "4", "5", "6", "7", "8", "9">>

\* The accession number of the p-th filing of the index: unique.
Accession(p) == <<"7", "-", "2", "-", DigitSeq[p]>>

Entry(body, p) ==
    [accessionNumber |-> Accession(p),
     form |-> body.form,
     filingDate |-> body.filingDate,
     primaryDocument |-> body.primaryDocument,
     primaryDocDescription |-> body.primaryDocDescription]

\* A page of the index whose first entry is the (offset + 1)-th filing.
Page(bodies, offset) == [i \in 1..Len(bodies) |-> Entry(bodies[i], offset + i)]

\* ------------------------------------------------------------------ Init

Init ==
    /\ pc = "idle"
    /\ err = NoError
    /\ mapping = "None"
    /\ ident = NoIdent
    /\ lookups = 0
    /\ cik = <<>>
    /\ args = NoArgs
    /\ submissions = <<>>
    /\ extraFiles = <<>>
    /\ targets = <<>>
    /\ downloadDetails = FALSE
    /\ row = 0
    /\ net = <<>>
    /\ written = {}
    /\ sessions = {}
    /\ ret = NoReturn
    /\ call = NoCall
    /\ result = NoResult

\* --------------------------------------------------------------- actions

\* client = requests.Session() at the start of a pass.
session_open(open, pass) == open \cup {pass}

\* A finally block that leaves the session open.
client_close_skipped(open, pass) == open

\* finally: client.close().
client_close(open, pass) == open \ {pass}

\* The passes of get that hold a session in a try ... finally.
SessionPasses == {"index", "persist"}

\* get raises: the exception leaves every frame, through the finally block of
\* the pass it is raised in if that is one with a session; where it leaves
\* get_submissions_for_cik the locals of the frames go.
Raise(phase, exc) ==
    /\ pc' = "error"
    /\ err' = [phase |-> phase, exc |-> exc]
    /\ sessions' = IF phase \in SessionPasses
                   THEN client_close(sessions, phase)
                   ELSE sessions

\* The outcome of identifier resolution: an error of get, or the cik.
Resolved(r) ==
    IF r.kind = "error"
    THEN /\ Raise("validation", r.exc)
         /\ cik' = <<>>
    ELSE /\ pc' = "validate"
         /\ err' = NoError
         /\ sessions' = sessions
         /\ cik' = r.value

\* get is called (Downloader.py line 163): _validate_ticker_or_cik runs until
\* it returns, raises, or needs the ticker table built.
Get(ticker_or_cik) ==
    /\ pc = "idle"
    /\ LET r == validate_ticker_or_cik(ticker_or_cik)
       IN  /\ ident' = r
           /\ IF r.kind = "ticker"
              THEN IF mapping = "None"
                   THEN /\ pc' = "load_mapping"
                        /\ err' = NoError
                        /\ sessions' = sessions
                        /\ cik' = <<>>
                        /\ lookups' = 0
                   ELSE /\ Resolved(convert_ticker_to_cik(r.value))
                        /\ lookups' = 1
              ELSE /\ Resolved(r)
                   /\ lookups' = 0
    /\ args' = NoArgs
    /\ submissions' = <<>>
    /\ extraFiles' = <<>>
    /\ targets' = <<>>
    /\ downloadDetails' = FALSE
    /\ row' = 0
    /\ net' = <<>>
    /\ written' = {}
    /\ ret' = NoReturn
    /\ UNCHANGED <<mapping, call, result>>

\* _get_cik_cached with no table yet: StockMapper() and MutualFundMapper()
\* fetch their tables, then the ticker is looked up.
LoadMapping(stock, fund) ==
    /\ pc = "load_mapping"
    /\ IF stock # "ok"
       THEN /\ net' = Append(net, Request("mapper", 1, stock))
            /\ Raise("mapping", stock)
            /\ UNCHANGED <<mapping, lookups, cik>>
       ELSE IF fund # "ok"
       THEN /\ net' = net \o <<Request("mapper", 1, stock), Request("mapper", 2, fund)>>
            /\ Raise("mapping", fund)
            /\ UNCHANGED <<mapping, lookups, cik>>
       ELSE /\ net' = net \o <<Request("mapper", 1, stock), Request("mapper", 2, fund)>>
            /\ mapping' = "loaded"
            /\ lookups' = 1
            /\ Resolved(convert_ticker_to_cik(ident.value))
    /\ UNCHANGED <<ident, args, submissions, extraFiles, targets, downloadDetails,
                   row, written, ret, call, result>>

\* get, lines 168 to 179: the amount, the dates and the forms are checked, and
\* get_submissions_for_cik opens its session.
Validate(amount, start_date, end_date, forms) ==
    /\ pc = "validate"
    /\ LET dates == validate_dates(start_date, end_date)
           exc == IF dates.exc # "none" THEN dates.exc ELSE validate_forms(forms)
       IN  IF exc # "none"
           THEN /\ Raise("validation", exc)
                /\ UNCHANGED args
           ELSE /\ args' = [forms |-> forms, amount |-> normalize_amount(amount),
                            start_date |-> dates.start, end_date |-> dates.end]
                /\ pc' = "fetch_index"
                /\ sessions' = session_open(sessions, "index")
                /\ UNCHANGED err
    /\ UNCHANGED <<mapping, ident, lookups, cik, submissions, extraFiles, targets,
                   downloadDetails, row, net, written, ret, call, result>>

\* An index fetch that, like download_filings, goes on after an HTTPError.
index_fetch_skips_http_error(outcome) == outcome \notin {"ok", "HTTPError"}

\* get_submissions_for_cik has no except clause: whatever
\* rate_limited_get_request raises leaves it (and get).
index_fetch_raises(outcome) == outcome # "ok"

\* A loop over the supplementary pages that starts from the last one.
last_extra(files) == files[Len(files)]

\* for filing in extra_filings: the page fetched next, and the pages left.
next_extra(files) == Head(files)
rest_extra(files) == SelectSeq(files, LAMBDA name : name # next_extra(files))

\* get_submissions_for_cik returns (pd.concat, finally: client.close()).
IndexFetched ==
    /\ pc' = "filter"
    /\ sessions' = client_close(sessions, "index")
    /\ UNCHANGED err

\* get_submissions_for_cik, lines 80 to 88: the request for CIK{cik}.json, whose
\* answer holds the recent filings and the names of the supplementary pages.
FetchIndexPrimary(outcome, bodies, nfiles) ==
    /\ pc = "fetch_index"
    /\ net' = Append(net, Request("index", 0, outcome))
    /\ IF index_fetch_raises(outcome)
       THEN /\ Raise("index", outcome)
            /\ submissions' = <<>>
            /\ extraFiles' = <<>>
            /\ args' = NoArgs
       ELSE /\ submissions' = Page(bodies, 0)
            /\ extraFiles' = [i \in 1..nfiles |-> i]
            /\ IF nfiles = 0
               THEN IndexFetched
               ELSE /\ pc' = "fetch_extra"
                    /\ UNCHANGED <<err, sessions>>
            /\ UNCHANGED args
    /\ UNCHANGED <<mapping, ident, lookups, cik, targets, downloadDetails,
                   row, written, ret, call, result>>

\* get_submissions_for_cik, lines 89 to 94: one supplementary page.
FetchIndexExtra(outcome, bodies) ==
    /\ pc = "fetch_extra"
    /\ net' = Append(net, Request("index", next_extra(extraFiles), outcome))
    /\ IF index_fetch_raises(outcome)
       THEN /\ Raise("index", outcome)
            /\ submissions' = <<>>
            /\ extraFiles' = <<>>
            /\ args' = NoArgs
       ELSE /\ submissions' = submissions \o Page(bodies, Len(submissions))
            /\ extraFiles' = rest_extra(extraFiles)
            /\ IF rest_extra(extraFiles) = <<>>
               THEN IndexFetched
               ELSE UNCHANGED <<pc, err, sessions>>
            /\ UNCHANGED args
    /\ UNCHANGED <<mapping, ident, lookups, cik, targets, downloadDetails,
                   row, written, ret, call, result>>

\* A get that returns only the filings of which it wrote a file.
get_return_written(download_urls_df, files) ==
    [type |-> "DataFrame",
     rows |-> SelectSeq(download_urls_df,
                  LAMBDA r : \E f \in files : f.accessionNumber = r.accessionNumber)]

\* get, line 198: return download_urls_df.
get_return(download_urls_df, files) ==
    [type |-> "DataFrame", rows |-> download_urls_df]

\* get returns.
Return(df, files) ==
    /\ pc' = "done"
    /\ ret' = get_return(df, files)

\* get, lines 179 to 198, up to the first document request: filter_dataframe,
\* get_download_urls and, unless only_dataframe, the start of download_filings
\* (all of it when there is no row: the session is opened and closed).
\* The locals of get that are not read again are dropped.
FilterDerive(include_amends, only_dataframe, download_details) ==
    /\ pc = "filter"
    /\ LET filings_df ==
               filter_dataframe(submissions, args.forms, args.amount,
                                args.start_date, args.end_date, include_amends)
           download_urls_df == get_download_urls(cik, filings_df)
       IN  /\ targets' = download_urls_df
           /\ IF only_dataframe \/ download_urls_df = <<>>
              THEN /\ Return(download_urls_df, written)
                   /\ sessions' =
                         IF only_dataframe THEN sessions
                         ELSE client_close(session_open(sessions, "persist"),
                                           "persist")
                   /\ row' = 0
                   /\ downloadDetails' = FALSE
              ELSE /\ pc' = "full"
                   /\ sessions' = session_open(sessions, "persist")
                   /\ row' = 1
                   /\ downloadDetails' = download_details
                   /\ UNCHANGED ret
    /\ args' = NoArgs
    /\ submissions' = <<>>
    /\ UNCHANGED <<err, mapping, ident, lookups, cik, extraFiles, net, written,
                   call, result>>

\* download_filings: except requests.exceptions.HTTPError.
caught_by_except(outcome) == outcome = "HTTPError"

\* The file download_and_save_filing writes.
SavedFile(filing, save_filename, resolve_urls) ==
    [cik |-> cik,
     form |-> filing.form,
     accessionNumber |-> filing.accessionNumber,
     filename |-> save_filename,
     resolved |-> resolves_urls(resolve_urls, save_filename)]

\* download_filings: the condition of the details download.
wants_details(include_filing_details, filing) ==
    include_filing_details /\ filing.filingDetailsUrl # <<>>

\* download_filings: the loop goes on to the next row, or ends and get returns.
NextRow ==
    IF row < Len(targets)
    THEN /\ pc' = "full"
         /\ row' = row + 1
         /\ UNCHANGED <<err, sessions, ret>>
    ELSE /\ Return(targets, written')
         /\ sessions' = client_close(sessions, "persist")
         /\ UNCHANGED <<err, row>>

\* What the request log shows of a download: a failed write follows a
\* successful fetch.
Fetched(outcome) == IF outcome = "OSError" THEN "ok" ELSE outcome

\* download_filings, lines 197 to 211: the full submission of one row.
FetchFull(outcome) ==
    /\ pc = "full"
    /\ net' = Append(net, Request("full", row, Fetched(outcome)))
    /\ IF outcome = "ok"
       THEN written' = written \cup
                {SavedFile(targets[row], FILING_FULL_SUBMISSION_FILENAME, FALSE)}
       ELSE UNCHANGED written
    /\ IF outcome = "ok" \/ caught_by_except(outcome)
       THEN IF wants_details(downloadDetails, targets[row])
            THEN /\ pc' = "details"
                 /\ UNCHANGED <<err, sessions, ret, row>>
            ELSE NextRow
       ELSE /\ Raise("persist", outcome)
            /\ UNCHANGED <<ret, row>>
    /\ UNCHANGED <<mapping, ident, lookups, cik, args, submissions, extraFiles,
                   targets, downloadDetails, call, result>>

\* download_filings, lines 213 to 234: the details document of one row.
FetchDetails(outcome) ==
    /\ pc = "details"
    /\ net' = Append(net, Request("details", row, Fetched(outcome)))
    /\ IF outcome = "ok"
       THEN written' = written \cup
                {SavedFile(targets[row],
                           details_save_filename(targets[row].filingDetailsUrl), TRUE)}
       ELSE UNCHANGED written
    /\ IF outcome = "ok" \/ caught_by_except(outcome)
       THEN NextRow
       ELSE /\ Raise("persist", outcome)
            /\ UNCHANGED <<ret, row>>
    /\ UNCHANGED <<mapping, ident, lookups, cik, args, submissions, extraFiles,
                   targets, downloadDetails, call, result>>

\* ------------------------------------------------------- specification

Next ==
    \/ \E s \in Identifiers : Get(s)
    \/ \E stock \in {"ok", "ConnectionError"}, fund \in {"ok", "ConnectionError"} :
          LoadMapping(stock, fund)
    \/ \E a \in AmountInputs, sd \in DateInputs, ed \in DateInputs, f \in FormInputs :
          Validate(a, sd, ed, f)
    \/ \E o \in Outcomes, b \in SeqsUpTo(EntryBodies, MaxFilings), n \in 0..MaxExtraPages :
          FetchIndexPrimary(o, b, n)
    \/ \E o \in Outcomes, b \in SeqsUpTo(EntryBodies, MaxFilings - Len(submissions)) :
          FetchIndexExtra(o, b)
    \/ \E ia \in BOOLEAN, od \in BOOLEAN, dd \in BOOLEAN : FilterDerive(ia, od, dd)
    \/ \E o \in SaveOutcomes : FetchFull(o)
    \/ \E o \in SaveOutcomes : FetchDetails(o)

Spec == Init /\ [][Next]_vars

\* ------------------------------------------- the helpers on their own

\* Entries of an index handed to filter_dataframe: both forms, the days from
\* the one before the first to the one after the last, and descriptions that
\* end with the amendment marker or only hold it.
FilterEntryBodies ==
    { [form |-> f, filingDate |-> d, primaryDocument |-> <<>>,
       primaryDocDescription |-> desc] :
        f \in SUPPORTED_FORMS,
        d \in 0..(MaxDay + 1),
        desc \in { AmendDescription, <<"/", "A", "K">> } }

\* Entries of a longer index: both forms; of the first day or the day after
\* the last, an amendment or not.
CapEntryBodies ==
    { [form |-> f, filingDate |-> x.day, primaryDocument |-> <<>>,
       primaryDocDescription |-> x.desc] :
        f \in SUPPORTED_FORMS,
        x \in { [day |-> DefaultAfterDay, desc |-> PlainDescription],
                [day |-> MaxDay + 1, desc |-> PlainDescription],
                [day |-> DefaultAfterDay, desc |-> AmendDescription] } }

FilterCall(b, f, a, sd, ed, ia) ==
    [fn |-> "filter_dataframe", submissions |-> Page(b, 0), forms |-> f,
     amount |-> a, start_date |-> sd, end_date |-> ed, include_amends |-> ia,
     primaryDocument |-> <<>>]

\* The calls of filter_dataframe that get_filings_to_download can make:
\* supported forms, an amount of at least 1 if any, start_date <= end_date.
\* Without an amount the entries vary more, with one the index is longer.
IsFilterCall(c) ==
    \/ \E b \in SeqsUpTo(FilterEntryBodies, MaxIndexLen),
          f \in { {"8-K"}, {"8-K", "10-K"} },
          sd \in DefaultAfterDay..MaxDay,
          ia \in BOOLEAN :
          \E ed \in sd..MaxDay : c = FilterCall(b, f, NoAmount, sd, ed, ia)
    \/ \E b \in SeqsUpTo(CapEntryBodies, MaxIndexLen + 1),
          f \in { {"8-K"}, {"8-K", "10-K"} },
          k \in 1..MaxAmount,
          sd \in DefaultAfterDay..MaxDay,
          ia \in BOOLEAN :
          \E ed \in sd..MaxDay : c = FilterCall(b, f, SomeAmount(k), sd, ed, ia)

\* The calls of get seen from its amount: an amount below, at or above 1 as
\* the caller gives it, over the longer index and the whole calendar.
IsAmountCall(c) ==
    \E b \in SeqsUpTo(CapEntryBodies, MaxIndexLen + 1),
       f \in { {"8-K"}, {"8-K", "10-K"} },
       k \in (0 - 1)..MaxAmount,
       ia \in BOOLEAN :
       c = [FilterCall(b, f, SomeAmount(k), DefaultAfterDay, DefaultBeforeDay, ia)
               EXCEPT !.fn = "get_amount"]

\* Primary documents of a filing: a name, with or without a directory, and
\* an extension.
DocumentStems == { <<"a">>, <<"x", "/", "a">> }
DocumentExtensions ==
    { <<>>,
      <<".", "h", "t", "m">>,
      <<".", "h", "t", "m", "l">>,
      <<".", "p", "d", "f">>,
      <<".", "x", "m", "l">>,
      <<".", "t", "x", "t">> }

DeriveCalls ==
    { [fn |-> "derive", submissions |-> <<>>, forms |-> {}, amount |-> NoAmount,
       start_date |-> 0, end_date |-> 0, include_amends |-> FALSE,
       primaryDocument |-> stem \o ext] :
        stem \in DocumentStems, ext \in DocumentExtensions }

InitHelpers ==
    /\ pc = "idle"
    /\ err = NoError
    /\ mapping = "None"
    /\ ident = NoIdent
    /\ lookups = 0
    /\ cik = <<>>
    /\ args = NoArgs
    /\ submissions = <<>>
    /\ extraFiles = <<>>
    /\ targets = <<>>
    /\ downloadDetails = FALSE
    /\ row = 0
    /\ net = <<>>
    /\ written = {}
    /\ sessions = {}
    /\ ret = NoReturn
    /\ (IsFilterCall(call) \/ call \in DeriveCalls \/ IsAmountCall(call))
    /\ result = NoResult

\* filter_dataframe is applied to the arguments of the call.
ApplyFilter ==
    /\ call.fn = "filter_dataframe"
    /\ result = NoResult
    /\ result' =
          [fn |-> "filter_dataframe",
           rows |-> filter_dataframe(call.submissions, call.forms, call.amount,
                                     call.start_date, call.end_date,
                                     call.include_amends),
           filingDetailsUrl |-> <<>>, save_filename |-> <<>>, resolved |-> FALSE]
    /\ UNCHANGED <<getVars, call>>

\* The details file of a filing with the primary document of the call:
\* get_download_urls derives the URL, download_filings the file name, and
\* download_and_save_filing decides whether to rewrite the links.
ApplyDerive ==
    /\ call.fn = "derive"
    /\ result = NoResult
    /\ LET url == download_url_row(KnownTickerCik,
                      Entry([form |-> "8-K", filingDate |-> DefaultAfterDay,
                             primaryDocument |-> call.primaryDocument,
                             primaryDocDescription |-> PlainDescription], 1)
                  ).filingDetailsUrl
           save_filename == details_save_filename(url)
       IN  result' =
              [fn |-> "derive", rows |-> <<>>, filingDetailsUrl |-> url,
               save_filename |-> save_filename,
               resolved |-> resolves_urls(TRUE, save_filename)]
    /\ UNCHANGED <<getVars, call>>

\* get, lines 168 and 169, then get_filings_to_download: the amount the
\* caller gave is made at least 1 and handed to filter_dataframe.
ApplyAmount ==
    /\ call.fn = "get_amount"
    /\ result = NoResult
    /\ result' =
          [fn |-> "get_amount",
           rows |-> filter_dataframe(call.submissions, call.forms,
                                     normalize_amount(call.amount),
                                     call.start_date, call.end_date,
                                     call.include_amends),
           filingDetailsUrl |-> <<>>, save_filename |-> <<>>, resolved |-> FALSE]
    /\ UNCHANGED <<getVars, call>>

NextHelpers == ApplyFilter \/ ApplyDerive \/ ApplyAmount

SpecHelpers == InitHelpers /\ [][NextHelpers]_vars

\* ================================================================ claims

\* The requests of this call to the filing index and the filing archive.
EdgarKinds == {"index", "full", "details"}
DocKinds == {"full", "details"}

\* The request of the given kind for the given page or row, as logged.
Requests(kind, key) == {i \in 1..Len(net) : net[i].kind = kind /\ net[i].key = key}

AccessionNumbers(rows) == {rows[k].accessionNumber : k \in 1..Len(rows)}

\* ---------------------------------------------------------------- C1

\* C1, as stated: a get call that completes returns the count of distinct
\* accession numbers among the filings selected for download.
C1_ReturnsCount ==
    pc = "done" =>
        ret = [type |-> "int", value |-> Cardinality(AccessionNumbers(targets))]

\* C1, amended: a get call that completes returns the table of download
\* targets, one row per filing selected for download in filter order, so that
\* its number of rows is the count of distinct accession numbers selected; the
\* row of a filing is there whatever became of its fetches.
C1_ReturnsTargets ==
    pc = "done" =>
        /\ ret.type = "DataFrame"
        /\ Len(ret.rows) = Len(targets)
        /\ \A k \in 1..Len(targets) :
              ret.rows[k].accessionNumber = targets[k].accessionNumber
        /\ Len(ret.rows) = Cardinality(AccessionNumbers(targets))

\* A completed call that selected a filing, failed to fetch its full
\* submission and its details document, wrote nothing of it, and returned it.
C1_Witness ==
    /\ pc = "done"
    /\ \E k \in 1..Len(targets) :
          /\ \E i \in Requests("full", k) : net[i].outcome = "HTTPError"
          /\ \E i \in Requests("details", k) : net[i].outcome = "HTTPError"
          /\ \A f \in written : f.accessionNumber # targets[k].accessionNumber
          /\ \E j \in 1..Len(ret.rows) :
                ret.rows[j].accessionNumber = targets[k].accessionNumber

\* ---------------------------------------------------------------- C2

FetchFailures == {"HTTPError", "ConnectionError", "RetryError"}

\* C2: a failed fetch of a full submission or of a details document never
\* aborts get: no fetch failure is what download_filings raises.
C2_DocumentFetchFailureNeverAborts ==
    ~(pc = "error" /\ err.phase = "persist" /\ err.exc \in FetchFailures)

\* ---------------------------------------------------------------- C3

\* C3, as stated: every input validation failure of get is raised before any
\* network access of the call.
C3_ValidationBeforeAnyNetwork ==
    (pc = "error" /\ err.phase = "validation") => net = <<>>

\* C3, amended: every input validation failure of get is raised before any
\* request to the filing index or the filing archive, and a call that asks the
\* index has a resolved identifier, supported forms and start <= end dates not
\* before the minimum; a call with a blank or numeric identifier that fails
\* validation performs no network access at all, while a call with a ticker may
\* first load the ticker table, which is all it accesses.
C3_ValidationBeforeEdgar ==
    /\ (pc = "error" /\ err.phase = "validation") =>
          /\ \A i \in 1..Len(net) : net[i].kind = "mapper"
          /\ (ident.kind # "ticker" => net = <<>>)
          /\ (ident.value = <<>> \/ is_cik(ident.value)) => net = <<>>
    /\ pc \in {"fetch_index", "fetch_extra", "filter"} =>
          /\ cik # <<>>
          /\ args.forms # {}
          /\ args.forms \subseteq SUPPORTED_FORMS
          /\ DefaultAfterDay <= args.start_date
          /\ args.start_date <= args.end_date
    /\ (\E i \in 1..Len(net) : net[i].kind \in EdgarKinds) => err.phase # "validation"

\* A call with a ticker and an unsupported form: the ticker table was loaded
\* before the form was refused.
C3_Witness ==
    /\ pc = "error"
    /\ err = [phase |-> "validation", exc |-> "UnsupportedForm"]
    /\ ident.kind = "ticker"
    /\ net # <<>>

\* ---------------------------------------------------------------- C4

\* C4: if a request for the filing index fails (the primary page or a
\* supplementary one), get fails there: nothing is filtered, no document is
\* requested, no file is written, nothing is returned.
C4_IndexFailureIsFatal ==
    (\E i \in 1..Len(net) : net[i].kind = "index" /\ net[i].outcome # "ok") =>
        /\ pc = "error"
        /\ err.phase = "index"
        /\ net[Len(net)].kind = "index"
        /\ net[Len(net)].outcome = err.exc
        /\ \A i \in 1..Len(net) : net[i].kind \notin DocKinds
        /\ targets = <<>>
        /\ written = {}
        /\ ret = NoReturn

\* A supplementary page failed after the primary page had been fetched.
C4_Witness ==
    /\ pc = "error"
    /\ err.phase = "index"
    /\ \E i \in Requests("index", 0) : net[i].outcome = "ok"
    /\ net[Len(net)].kind = "index"
    /\ net[Len(net)].key > 0
    /\ net[Len(net)].outcome = "HTTPError"

\* ---------------------------------------------------------------- C5

\* C5: with no amount, filter_dataframe returns exactly the entries of the
\* index whose form is requested, whose filing date is a day from start_date
\* to end_date, both included, and, unless amendments are included, whose
\* description does not end with "/A"; they come in the order of the index.
C5_FilterExact ==
    (result.fn = "filter_dataframe" /\ call.amount = NoAmount) =>
        LET subs == call.submissions
            rows == result.rows
            Wanted ==
                {p \in 1..Len(subs) :
                    LET d == subs[p].primaryDocDescription
                    IN  /\ subs[p].form \in call.forms
                        /\ call.start_date <= subs[p].filingDate
                        /\ subs[p].filingDate <= call.end_date
                        /\ \/ call.include_amends
                           \/ Len(d) < 2
                           \/ <<d[Len(d) - 1], d[Len(d)]>> # <<"/", "A">>}
        IN  /\ {rows[k].index + 1 : k \in 1..Len(rows)} = Wanted
            /\ Len(rows) = Cardinality(Wanted)
            /\ \A k \in 1..(Len(rows) - 1) : rows[k].index < rows[k + 1].index
            /\ \A k \in 1..Len(rows) :
                  LET e == subs[rows[k].index + 1]
                  IN  /\ rows[k].accessionNumber = e.accessionNumber
                      /\ rows[k].form = e.form
                      /\ rows[k].filingDate = e.filingDate
                      /\ rows[k].primaryDocDescription = e.primaryDocDescription

\* Amendments left out, from a first to a later day: an entry of the first
\* day is kept, as is one whose description has "/A" but not at its end, and
\* no entry of the day after the last is.
C5_Witness ==
    /\ result.fn = "filter_dataframe"
    /\ call.amount = NoAmount
    /\ ~call.include_amends
    /\ call.start_date < call.end_date
    /\ \E k \in 1..Len(result.rows) :
          /\ result.rows[k].filingDate = call.start_date
          /\ result.rows[k].primaryDocDescription # AmendDescription
    /\ \E p \in 1..Len(call.submissions) :
          /\ call.submissions[p].form \in call.forms
          /\ call.submissions[p].filingDate = call.end_date + 1
          /\ call.submissions[p].primaryDocDescription # AmendDescription
          /\ \A k \in 1..Len(result.rows) : result.rows[k].index # p - 1

\* ---------------------------------------------------------------- C6

\* C6: with an amount N, filter_dataframe returns of each requested form the
\* first min(N, k) of the k entries of that form that pass the date and
\* amendment tests, all in the order of the index: the cap is one per form.
C6_CapPerForm ==
    (result.fn = "filter_dataframe" /\ call.amount.kind = "int") =>
        LET subs == call.submissions
            rows == result.rows
            N == call.amount.n
            Passing(f) ==
                {p \in 1..Len(subs) :
                    /\ subs[p].form = f
                    /\ call.start_date <= subs[p].filingDate
                    /\ subs[p].filingDate <= call.end_date
                    /\ \/ call.include_amends
                       \/ ~endswith(subs[p].primaryDocDescription, AmendMarker)}
            Selected(f) ==
                {rows[k].index + 1 : k \in {j \in 1..Len(rows) : rows[j].form = f}}
        IN  /\ \A k \in 1..Len(rows) :
                  /\ rows[k].form \in call.forms
                  /\ rows[k].index + 1 \in 1..Len(subs)
                  /\ rows[k].accessionNumber =
                         subs[rows[k].index + 1].accessionNumber
                  /\ rows[k].form = subs[rows[k].index + 1].form
            /\ \A k \in 1..(Len(rows) - 1) : rows[k].index < rows[k + 1].index
            /\ \A f \in call.forms :
                  /\ Selected(f) \subseteq Passing(f)
                  /\ Cardinality(Selected(f)) = Min(N, Cardinality(Passing(f)))
                  /\ \A p \in Selected(f), q \in Passing(f) \ Selected(f) : p < q

\* Two forms and a cap of 1 on an index of three entries that pass, two of
\* one form before one of the other: the first of each form is returned.
C6_Witness ==
    /\ result.fn = "filter_dataframe"
    /\ call.amount = SomeAmount(1)
    /\ call.forms = {"8-K", "10-K"}
    /\ Len(call.submissions) = 3
    /\ call.submissions[1].form = call.submissions[2].form
    /\ \A p \in 1..3 :
          /\ call.submissions[p].filingDate = call.start_date
          /\ call.submissions[p].primaryDocDescription = PlainDescription
    /\ Len(result.rows) = 2
    /\ result.rows[1].index = 0
    /\ result.rows[2].index = 2

\* ---------------------------------------------------------------- C7

\* C7: resolving an identifier whose trimmed, upper-cased value parses as an
\* integer fails with an input error when the value is longer than 10
\* characters and otherwise gives a company identifier of exactly 10 decimal
\* digits, with no network access and no lookup in the ticker table; a blank
\* identifier fails with an input error.
C7_NumericIdentifierResolution ==
    /\ ident.exc = "BlankIdentifier" =>
          /\ pc = "error"
          /\ err = [phase |-> "validation", exc |-> "BlankIdentifier"]
          /\ net = <<>>
    /\ (ident.kind = "cik" \/ ident.exc = "CikTooLong") =>
          /\ lookups = 0
          /\ \A i \in 1..Len(net) : net[i].kind # "mapper"
          /\ ident.exc = "CikTooLong" =>
                /\ Len(ident.value) > CikLen
                /\ pc = "error"
                /\ err = [phase |-> "validation", exc |-> "CikTooLong"]
                /\ net = <<>>
          /\ ident.kind = "cik" =>
                /\ cik = ident.value
                /\ Len(cik) = CikLen
                /\ AllDigits(cik)

\* ---------------------------------------------------------------- C8

\* C8: of every filing selected exactly one full submission fetch is
\* attempted, and a details fetch is attempted if and only if details are
\* asked for and the filing has a primary document; a filing without one has
\* no details URL, no second request and no details file.  Read of a
\* download pass that ended other than by a failed write.
C8_EveryTargetFetched ==
    (/\ \/ pc = "done"
        \/ pc = "error" /\ err.phase = "persist" /\ err.exc # "OSError"
     /\ \E i \in 1..Len(net) : net[i].kind \in DocKinds) =>
        \A k \in 1..Len(targets) :
            /\ Cardinality(Requests("full", k)) = 1
            /\ Cardinality(Requests("details", k)) =
                  IF downloadDetails /\ targets[k].filingDetailsUrl # <<>>
                  THEN 1 ELSE 0
            /\ targets[k].filingDetailsUrl = <<>> =>
                  \A f \in written :
                      f.accessionNumber = targets[k].accessionNumber =>
                          f.filename = FILING_FULL_SUBMISSION_FILENAME

\* ---------------------------------------------------------------- C9

\* C9: the details document is saved under the fixed stem followed by the
\* extension of the primary document, ".htm" made ".html": a primary
\* document in ".htm" or ".html" is saved as ".html" and has its relative
\* links rewritten, one with another extension keeps that extension.
C9_DetailsExtension ==
    result.fn = "derive" =>
        LET suffix == path_suffix(path_name(call.primaryDocument))
        IN  IF suffix \in { <<".", "h", "t", "m">>, <<".", "h", "t", "m", "l">> }
            THEN /\ result.save_filename =
                       FILING_DETAILS_FILENAME_STEM \o <<".", "h", "t", "m", "l">>
                 /\ result.resolved
            ELSE result.save_filename = FILING_DETAILS_FILENAME_STEM \o suffix

\* --------------------------------------------------------------- C10

\* C10: within one get call the requests go out one after the other, in
\* order: the primary index page, then the supplementary pages in the order
\* listed, all before any document; then the filings one at a time in the
\* order of the filter output, of each the full submission and then, before
\* the next filing's full submission, its details document.
C10_RequestOrder ==
    /\ \A i \in 1..Len(net) :
          /\ net[i].kind = "index" =>
                /\ net[i].key =
                      Cardinality({j \in 1..(i - 1) : net[j].kind = "index"})
                /\ \A j \in 1..(i - 1) : net[j].kind \notin DocKinds
          /\ net[i].kind = "full" =>
                /\ net[i].key =
                      1 + Cardinality({j \in 1..(i - 1) : net[j].kind = "full"})
                /\ net[i].key \in 1..Len(targets)
          /\ net[i].kind = "details" =>
                /\ i > 1
                /\ net[i - 1] \in
                      {Request("full", net[i].key, o) : o \in {"ok", "HTTPError"}}
    /\ (\E i \in 1..Len(net) : net[i].kind \in DocKinds) =>
          /\ extraFiles = <<>>
          /\ \A i \in 1..Len(net) : net[i].kind = "index" => net[i].outcome = "ok"
    /\ pc \in {"full", "details"} =>
          /\ row = 1 + Cardinality({j \in 1..Len(net) : net[j].kind = "full"})
                     - (IF pc = "details" THEN 1 ELSE 0)
          /\ pc = "details" => net[Len(net)].kind = "full"

\* A completed call that fetched the primary page and two supplementary ones,
\* then the full submission and the details document of the first filing,
\* then the full submission of the second.
C10_Witness ==
    /\ pc = "done"
    /\ Requests("index", 2) # {}
    /\ \E i \in Requests("full", 1) :
          /\ i + 2 <= Len(net)
          /\ net[i + 1] = Request("details", 1, "ok")
          /\ net[i + 2].kind = "full"
          /\ net[i + 2].key = 2

\* --------------------------------------------------------------- C11

\* C11: the session of the index pass is open during that pass only and the
\* session of the download pass during that pass only: each is closed when
\* its pass returns or raises, whatever the path, so that none is open when
\* get has ended and never more than one is open.
C11_SessionsScoped ==
    /\ Cardinality(sessions) <= 1
    /\ ("index" \in sessions) <=> (pc \in {"fetch_index", "fetch_extra"})
    /\ ("persist" \in sessions) <=> (pc \in {"full", "details"})
    /\ pc \in {"filter", "done", "error"} => sessions = {}

\* A download pass that went on after a failed fetch and then ended on a
\* write that failed: get has raised the OSError and no session is open.
C11_Witness ==
    /\ pc = "error"
    /\ err = [phase |-> "persist", exc |-> "OSError"]
    /\ \E i \in 1..Len(net) :
          net[i].kind \in DocKinds /\ net[i].outcome = "HTTPError"
    /\ sessions = {}

\* --------------------------------------------------------------- C12

\* C12: an amount of 0 or less that the caller gives is treated as 1, as is
\* 1 itself: of each requested form that has an entry passing the date and
\* amendment tests exactly the first such entry is selected, and of a form
\* that has none, nothing; so the selection is empty only if nothing passes.
C12_AmountAtLeastOne ==
    (result.fn = "get_amount" /\ call.amount.n <= 1) =>
        LET subs == call.submissions
            rows == result.rows
            Passing(f) ==
                {p \in 1..Len(subs) :
                    /\ subs[p].form = f
                    /\ call.start_date <= subs[p].filingDate
                    /\ subs[p].filingDate <= call.end_date
                    /\ \/ call.include_amends
                       \/ ~endswith(subs[p].primaryDocDescription, AmendMarker)}
            First(S) == CHOOSE p \in S : \A q \in S : p <= q
            Of(f) == {k \in 1..Len(rows) : rows[k].form = f}
        IN  /\ \A k \in 1..Len(rows) : rows[k].form \in call.forms
            /\ \A k \in 1..(Len(rows) - 1) : rows[k].index < rows[k + 1].index
            /\ \A f \in call.forms :
                  IF Passing(f) = {}
                  THEN Of(f) = {}
                  ELSE /\ Cardinality(Of(f)) = 1
                       /\ \A k \in Of(f) :
                             /\ rows[k].index + 1 = First(Passing(f))
                             /\ rows[k].accessionNumber =
                                    subs[First(Passing(f))].accessionNumber
            /\ (\E f \in call.forms : Passing(f) # {}) => rows # <<>>

\* A negative amount, two forms, and an index with two passing entries of one
\* form before one of the other: the first of each form is selected.
C12_Witness ==
    /\ result.fn = "get_amount"
    /\ call.amount = SomeAmount(0 - 1)
    /\ call.forms = {"8-K", "10-K"}
    /\ Len(call.submissions) = 3
    /\ call.submissions[1].form = call.submissions[2].form
    /\ \A p \in 1..3 :
          /\ call.submissions[p].filingDate = call.start_date
          /\ call.submissions[p].primaryDocDescription = PlainDescription
    /\ Len(result.rows) = 2
    /\ result.rows[1].index = 0
    /\ result.rows[2].index = 2

====
